---- MODULE Spec2Model ----
(***************************************************************************)
(* A model of pyroute2's NDB synchronisation engine (pyroute2/ndb/main.py):*)
(* the constructing thread, the "NDB main loop" thread (__dbm__, which     *)
(* runs __initdb__ and then the dispatch loop), one event source thread    *)
(* per target, and caller threads using View.__getitem__, View.dump and    *)
(* NDB.close.                                                              *)
(***************************************************************************)
EXTENDS Integers, Sequences, FiniteSets, TLC

\* ------------------------------------------------------------------ bounds
\* Total number of incremental batches the channels deliver.
MaxIncr == 2
\* Number of View.__getitem__ calls (handles) made by callers.
MaxHandles == 2
\* Number of NDB.close() calls made by callers.
MaxClose == 2

\* --------------------------------------------------------------- constants
\* self.nl: the configured targets, in the iteration order of self.nl.items()
TargetSeq == <<"localhost", "netns0">>
Targets == {TargetSeq[i] : i \in 1..Len(TargetSeq)}

\* The message types of the four initial dumps, in the order __initdb__
\* requests them: get_links, get_addr, get_neighbours, get_routes.
SeedTypes == <<"ifinfmsg", "ifaddrmsg", "ndmsg", "rtmsg">>

\* The shapes (sequences of event types) of the batches a channel can
\* deliver to a source thread.
IncrShapes == {<<"ifinfmsg", "ndmsg">>, <<"other", "Exception">>}

\* The entity classes of the views callers take handles from (keyed access
\* is modelled on ndb.interfaces).
Classes == {"Interface"}

VARIABLES
    ctorPc,        \* constructing thread: "wait" | "returned"
    dbmPc,         \* NDB main loop thread position
    initIdx,       \* loop index inside __initdb__
    dbmReady,      \* self._dbm_ready (threading.Event flag)
    readySets,     \* number of set() calls made on self._dbm_ready
    lock,          \* self._global_lock holder: "free" | "dbm" | "close"
    schema,        \* self.schema: "None" | "set"
    db,            \* self._db / the store: "none" | "open" | "closed"
    nl,            \* self.nl[target]: "unbound" | "bound" | "closed"
    gen,           \* per target: events generated by its channel so far
    incrRead,      \* incremental batches delivered so far (all targets)
    srcThreads,    \* self._src_threads: targets of the started threads
    srcPc,         \* source thread of a target: "none"|"read"|"got"|"done"
    srcMsg,        \* the batch a source thread holds after channel.get()
    queue,         \* self._event_queue
    event_map,     \* self._event_map
    rtnl_objects,  \* self._rtnl_objects: [exists, refs]
    views,         \* the four View attributes exist
    dbmTarget,     \* dispatch loop: target of the current batch
    dbmEvents,     \* dispatch loop: events of the current batch not yet done
    dbmAlias,      \* dispatch loop: id of the list bound to `handlers`
    dbmSnap,       \* dispatch loop: tuple(handlers)
    dbmIdx,        \* dispatch loop: position in dbmSnap
    lastOutcome,   \* outcome of the latest handler call of this event
    hState,        \* caller h: "none"|"dumping"|"added"|"checked"|"live"|"dead"
    hClass,        \* handle: its entity class
    hPresent,      \* handle: result of `event not in self._event_map`
    closePc,       \* the close() call holding the lock
    closeIdx,      \* close(): index into self._src_threads
    closeOps,      \* per close() call: the operations it performed
    dispatched,    \* per target: seq numbers handed to handlers, in order
    enqueued,      \* per target: seq numbers put on the queue by its thread
    mapWriters,    \* threads that mutated self._event_map
    regWriters,    \* threads that added to / removed from _rtnl_objects
    dbWriters,     \* threads that executed a mutating store statement
    deadCalls,     \* handle methods invoked on a reclaimed handle
    csvDump,       \* View.csv: the records of its `dump` argument
    csvOut,        \* View.csv: the strings it has yielded so far
    nftReg,        \* NFTReg: the register number given to to_netlink
    nftNames,      \* NFTReg: two netlink names given to from_netlink
    nftOut         \* NFTReg: the results of the conversions so far

vars == <<ctorPc, dbmPc, initIdx, dbmReady, readySets, lock, schema, db, nl,
          gen, incrRead, srcThreads, srcPc, srcMsg, queue, event_map,
          rtnl_objects, views, dbmTarget, dbmEvents, dbmAlias, dbmSnap,
          dbmIdx, lastOutcome, hState, hClass, hPresent, closePc, closeIdx,
          closeOps, dispatched, enqueued, mapWriters, regWriters, dbWriters,
          deadCalls, csvDump, csvOut, nftReg, nftNames, nftOut>>

csvVars == <<csvDump, csvOut>>
nftVars == <<nftReg, nftNames, nftOut>>
pureVars == <<csvVars, nftVars>>

\* ---------------------------------------------------------------- helpers
Types == {"Event", "ifinfmsg", "ifaddrmsg", "ndmsg", "rtmsg",
          "ShutdownException", "InvalidateHandlerException", "Exception",
          "other"}

\* isinstance(event, Exception)
ExceptionTypes == {"ShutdownException", "InvalidateHandlerException",
                   "Exception"}

Handles == 1..MaxHandles

Ev(type, tgt, seq, kind) ==
    [type |-> type, tgt |-> tgt, seq |-> seq, kind |-> kind]

Hd(kind, h) == [kind |-> kind, h |-> h]

NoOutcome == [kind |-> "none", h |-> 0, outcome |-> "none"]

NoList == [present |-> FALSE, id |-> 0, items |-> <<>>]

\* Interface.event_map / Neighbour.event_map: the one message type each
\* entity class listens to. "Direct" stands for a handler a caller passes
\* to NDB.register_handler itself, for an event type of its own.
ClassEvent(cls) ==
    IF cls = "Interface" THEN "ifinfmsg"
    ELSE IF cls = "Neighbour" THEN "ndmsg"
    ELSE "other"

\* A queue that hands out the newest item first.
QueuePutLifo(q, item) == <<item>> \o q

\* queue.Queue.put: FIFO
QueuePut(q, item) == Append(q, item)

\* NDB.register_handler, run as a whole by one thread.
register_handler(map, event, handler, newId) ==
    IF ~map[event].present
    THEN [map EXCEPT ![event] =
             [present |-> TRUE, id |-> newId, items |-> <<handler>>]]
    ELSE [map EXCEPT ![event].items = Append(@, handler)]

\* list.remove(x): drops the first occurrence
RECURSIVE ListRemove(_, _)
ListRemove(s, x) ==
    IF s = <<>> THEN <<>>
    ELSE IF Head(s) = x THEN Tail(s)
    ELSE <<Head(s)>> \o ListRemove(Tail(s), x)

\* The thread is not alive any more.
DbmDeadPcs == {"terminated", "init_failed", "sweep_crashed"}

\* Source threads started before the dumps are requested.
InitdbPhasesStartFirst == <<"start", "seed", "sentinel">>

\* The order of the three parts of the "initial load" section of
\* __initdb__: seed dumps, source thread start, readiness sentinel.
InitdbPhases == <<"seed", "start", "sentinel">>

PhaseAfter(p) ==
    LET i == CHOOSE k \in 1..Len(InitdbPhases) : InitdbPhases[k] = p
    IN  IF i = Len(InitdbPhases) THEN "unlock" ELSE InitdbPhases[i + 1]

\* ------------------------------------------------------------------- Init
\* NDB.__init__ up to self._dbm_thread.start(): the constructing thread is
\* about to block in self._dbm_ready.wait().
EngineInit ==
    /\ ctorPc = "wait"
    /\ dbmPc = "begin"
    /\ initIdx = 1
    /\ dbmReady = FALSE
    /\ readySets = 0
    /\ lock = "free"
    /\ schema = "None"
    /\ db = "none"
    /\ nl = [t \in Targets |-> "unbound"]
    /\ gen = [t \in Targets |-> 0]
    /\ incrRead = 0
    /\ srcThreads = <<>>
    /\ srcPc = [t \in Targets |-> "none"]
    /\ srcMsg = [t \in Targets |-> <<>>]
    /\ queue = <<>>
    /\ event_map = [ty \in Types |-> NoList]
    /\ rtnl_objects = [exists |-> FALSE, refs |-> {}]
    /\ views = FALSE
    /\ dbmTarget = "localhost"
    /\ dbmEvents = <<>>
    /\ dbmAlias = 0
    /\ dbmSnap = <<>>
    /\ dbmIdx = 1
    /\ lastOutcome = NoOutcome
    /\ hState = [h \in Handles |-> "none"]
    /\ hClass = [h \in Handles |-> "Interface"]
    /\ hPresent = [h \in Handles |-> FALSE]
    /\ closePc = "idle"
    /\ closeIdx = 1
    /\ closeOps = <<>>
    /\ dispatched = [t \in Targets |-> <<>>]
    /\ enqueued = [t \in Targets |-> <<>>]
    /\ mapWriters = {}
    /\ regWriters = {}
    /\ dbWriters = {}
    /\ deadCalls = 0

\* No conversion has been made and none is asked for.
NftIdle ==
    /\ nftReg = 0
    /\ nftNames = <<>>
    /\ nftOut = [nl |-> <<>>, back |-> <<>>, nums |-> <<>>]

\* No View.csv call is being made.
Init ==
    /\ EngineInit
    /\ csvDump = <<>>
    /\ csvOut = <<>>
    /\ NftIdle

ctorVars == <<ctorPc, views>>
srcVars == <<srcThreads, srcPc, srcMsg, gen, incrRead, enqueued>>
loopVars == <<dbmTarget, dbmEvents, dbmAlias, dbmSnap, dbmIdx, lastOutcome,
              dispatched, deadCalls>>
handleVars == <<hState, hClass, hPresent>>
closeVars == <<closePc, closeIdx, closeOps>>

\* ------------------------------------------------- NDB.__init__, the rest
\* self._dbm_ready.wait() returns; self._rtnl_objects = set(); the views.
\* A constructor that does not wait.
dbm_ready_nowait == TRUE

dbm_ready_wait == dbmReady

CtorResume ==
    /\ ctorPc = "wait"
    /\ dbm_ready_wait
    /\ ctorPc' = "returned"
    /\ rtnl_objects' = [exists |-> TRUE, refs |-> {}]
    /\ views' = TRUE
    /\ UNCHANGED <<dbmPc, initIdx, dbmReady, readySets, lock, schema, db, nl,
                   queue, event_map, mapWriters, regWriters, dbWriters>>
    /\ UNCHANGED <<srcVars, loopVars, handleVars, closeVars>>
    /\ UNCHANGED pureVars

\* -------------------------------------------------------------- __dbm__
\* self._event_map = {type(self._dbm_ready): [lambda t, x: x.set()]}
DbmInitMap ==
    /\ dbmPc = "begin"
    /\ event_map' = register_handler([ty \in Types |-> NoList], "Event",
                                     Hd("ready", 0), 0)
    /\ mapWriters' = mapWriters \cup {"dbm"}
    /\ dbmPc' = "lock"
    /\ UNCHANGED <<initIdx, dbmReady, readySets, lock, schema, db, nl, queue,
                   rtnl_objects, regWriters, dbWriters>>
    /\ UNCHANGED <<ctorVars, srcVars, loopVars, handleVars, closeVars>>
    /\ UNCHANGED pureVars

\* ----------------------------------------------------------- __initdb__
\* with self._global_lock: ... no source thread runs yet, so the "stop
\* running sources" loop has nothing to do.
InitdbLock ==
    /\ dbmPc = "lock"
    /\ lock = "free"
    /\ srcThreads = <<>>
    /\ lock' = "dbm"
    /\ dbmPc' = "bind"
    /\ UNCHANGED <<initIdx, dbmReady, readySets, schema, db, nl, queue,
                   event_map, rtnl_objects, mapWriters, regWriters,
                   dbWriters>>
    /\ UNCHANGED <<ctorVars, srcVars, loopVars, handleVars, closeVars>>
    /\ UNCHANGED pureVars

\* An initialisation that swallows the exception and carries on.
OnInitFailureSwallow(next) == next

\* An exception raised inside __initdb__ is caught nowhere: it leaves
\* __initdb__ and __dbm__, and the thread ends where it would have gone
\* on to `next`.
OnInitFailure(next) == "init_failed"

\* self.nl[target].bind(async_cache=True) for every target; a failure
\* propagates out of __initdb__ and __dbm__ (the lock is released by `with`).
InitdbBind(ok) ==
    /\ dbmPc = "bind"
    /\ IF ok
       THEN /\ nl' = [t \in Targets |-> "bound"]
            /\ dbmPc' = "connect"
            /\ lock' = lock
       ELSE /\ nl' = nl
            /\ dbmPc' = OnInitFailure("connect")
            /\ lock' = IF OnInitFailure("connect") = "init_failed"
                       THEN "free" ELSE lock
    /\ UNCHANGED <<initIdx, dbmReady, readySets, schema, db, queue,
                   event_map, rtnl_objects, mapWriters, regWriters,
                   dbWriters>>
    /\ UNCHANGED <<ctorVars, srcVars, loopVars, handleVars, closeVars>>
    /\ UNCHANGED pureVars

\* self._db = sqlite3.connect(...) / psycopg2.connect(...)
InitdbConnect(ok) ==
    /\ dbmPc = "connect"
    /\ IF ok
       THEN /\ db' = "open"
            /\ dbmPc' = InitdbPhases[1]
            /\ lock' = lock
       ELSE /\ db' = db
            /\ dbmPc' = OnInitFailure(InitdbPhases[1])
            /\ lock' = IF OnInitFailure(InitdbPhases[1]) = "init_failed"
                       THEN "free" ELSE lock
    /\ initIdx' = 1
    /\ UNCHANGED <<dbmReady, readySets, schema, nl, queue, event_map,
                   rtnl_objects, mapWriters, regWriters, dbWriters>>
    /\ UNCHANGED <<ctorVars, srcVars, loopVars, handleVars, closeVars>>
    /\ UNCHANGED pureVars

\* The four dumps of one target, each one batch holding one message.
SeedBatches(t, base) ==
    [i \in 1..Len(SeedTypes) |->
        [target |-> t,
         events |-> <<Ev(SeedTypes[i], t, base + i, "seed")>>]]

\* evq.put((target, channel.get_links())) ... get_routes(), one target
InitdbSeed ==
    /\ dbmPc = "seed"
    /\ LET t == TargetSeq[initIdx]
           b == SeedBatches(t, gen[t])
       IN  /\ queue' = QueuePut(QueuePut(QueuePut(QueuePut(queue,
                           b[1]), b[2]), b[3]), b[4])
           /\ gen' = [gen EXCEPT ![t] = @ + Len(SeedTypes)]
    /\ IF initIdx = Len(TargetSeq)
       THEN /\ initIdx' = 1
            /\ dbmPc' = PhaseAfter("seed")
       ELSE /\ initIdx' = initIdx + 1
            /\ dbmPc' = dbmPc
    /\ UNCHANGED <<dbmReady, readySets, lock, schema, db, nl, incrRead,
                   srcThreads, srcPc, srcMsg, enqueued, event_map,
                   rtnl_objects, mapWriters, regWriters, dbWriters>>
    /\ UNCHANGED <<ctorVars, loopVars, handleVars, closeVars>>
    /\ UNCHANGED pureVars

\* th = threading.Thread(target=t, ...); th.start();
\* self._src_threads.append(th), one target
InitdbStart ==
    /\ dbmPc = "start"
    /\ LET t == TargetSeq[initIdx]
       IN  /\ srcPc' = [srcPc EXCEPT ![t] = "read"]
           /\ srcThreads' = Append(srcThreads, t)
    /\ IF initIdx = Len(TargetSeq)
       THEN /\ initIdx' = 1
            /\ dbmPc' = PhaseAfter("start")
       ELSE /\ initIdx' = initIdx + 1
            /\ dbmPc' = dbmPc
    /\ UNCHANGED <<dbmReady, readySets, lock, schema, db, nl, gen, incrRead,
                   srcMsg, enqueued, queue, event_map, rtnl_objects,
                   mapWriters, regWriters, dbWriters>>
    /\ UNCHANGED <<ctorVars, loopVars, handleVars, closeVars>>
    /\ UNCHANGED pureVars

\* The readiness sentinel: ('localhost', (self._dbm_ready, ))
ReadySentinel ==
    [target |-> "localhost", events |-> <<Ev("Event", "localhost", 0, "ctl")>>]

\* evq.put(('localhost', (self._dbm_ready, ), ))
InitdbSentinel ==
    /\ dbmPc = "sentinel"
    /\ queue' = QueuePut(queue, ReadySentinel)
    /\ dbmPc' = PhaseAfter("sentinel")
    /\ UNCHANGED <<initIdx, dbmReady, readySets, lock, schema, db, nl,
                   event_map, rtnl_objects, mapWriters, regWriters,
                   dbWriters>>
    /\ UNCHANGED <<ctorVars, srcVars, loopVars, handleVars, closeVars>>
    /\ UNCHANGED pureVars

\* leaving `with self._global_lock:`
InitdbUnlock ==
    /\ dbmPc = "unlock"
    /\ lock' = "free"
    /\ dbmPc' = "schema"
    /\ UNCHANGED <<initIdx, dbmReady, readySets, schema, db, nl, queue,
                   event_map, rtnl_objects, mapWriters, regWriters,
                   dbWriters>>
    /\ UNCHANGED <<ctorVars, srcVars, loopVars, handleVars, closeVars>>
    /\ UNCHANGED pureVars

\* schema.event_map: one schema-maintenance handler per message type the
\* store mirrors.
SchemaEventTypes == <<"ifinfmsg", "ifaddrmsg", "ndmsg", "rtmsg">>

RECURSIVE RegisterAll(_, _)
RegisterAll(map, types) ==
    IF types = <<>> THEN map
    ELSE RegisterAll(register_handler(map, Head(types), Hd("schema", 0), 0),
                     Tail(types))

\* self.schema = dbschema.init(...); then register_handler for every
\* handler of self.schema.event_map. dbschema.init creates the tables.
DbmSchema ==
    /\ dbmPc = "schema"
    /\ schema' = "set"
    /\ dbWriters' = dbWriters \cup {"dbm"}
    /\ event_map' = RegisterAll(event_map, SchemaEventTypes)
    /\ mapWriters' = mapWriters \cup {"dbm"}
    /\ dbmPc' = "get"
    /\ UNCHANGED <<initIdx, dbmReady, readySets, lock, db, nl, queue,
                   rtnl_objects, regWriters>>
    /\ UNCHANGED <<ctorVars, srcVars, loopVars, handleVars, closeVars>>
    /\ UNCHANGED pureVars

\* --------------------------------------------------- the dispatch loop
\* target, events = event_queue.get()
DbmGet ==
    /\ dbmPc = "get"
    /\ queue # <<>>
    /\ queue' = Tail(queue)
    /\ dbmTarget' = Head(queue).target
    /\ dbmEvents' = Head(queue).events
    /\ dbmPc' = IF Head(queue).events = <<>> THEN "get" ELSE "event"
    /\ UNCHANGED <<initIdx, dbmReady, readySets, lock, schema, db, nl,
                   event_map, rtnl_objects, mapWriters, regWriters,
                   dbWriters, dbmAlias, dbmSnap, dbmIdx, lastOutcome,
                   dispatched, deadCalls>>
    /\ UNCHANGED <<ctorVars, srcVars, handleVars, closeVars>>
    /\ UNCHANGED pureVars

\* event_map.get(event.__class__, [default_handler, ])
HandlersFor(map, type) ==
    IF map[type].present THEN map[type].items ELSE <<Hd("default", 0)>>

\* The identity of the list `handlers` is bound to; -1 is the fresh list
\* holding default_handler.
AliasFor(map, type) == IF map[type].present THEN map[type].id ELSE -1

\* for event in events: handlers = ...; for handler in tuple(handlers):
DbmEvent ==
    /\ dbmPc = "event"
    /\ LET ev == Head(dbmEvents)
       IN  /\ dbmSnap' = HandlersFor(event_map, ev.type)
           /\ dbmAlias' = AliasFor(event_map, ev.type)
           /\ dispatched' = IF ev.kind = "ctl" THEN dispatched
                            ELSE [dispatched EXCEPT ![ev.tgt] =
                                      Append(@, ev.seq)]
           /\ dbmPc' = IF HandlersFor(event_map, ev.type) = <<>>
                       THEN "gc" ELSE "handler"
    /\ dbmIdx' = 1
    /\ UNCHANGED <<initIdx, dbmReady, readySets, lock, schema, db, nl, queue,
                   event_map, rtnl_objects, mapWriters, regWriters,
                   dbWriters, dbmTarget, dbmEvents, lastOutcome, deadCalls>>
    /\ UNCHANGED <<ctorVars, srcVars, handleVars, closeVars>>
    /\ UNCHANGED pureVars

\* A wrapper that does not look at the weak reference after a failure.
wr_handler_no_check(alive) == {"ok", "fault"}

\* View.__getitem__.wr_handler: what a call of the weakly bound method
\* raises; the method itself may succeed or fail.
wr_handler(alive) == IF alive THEN {"ok", "fault"} ELSE {"invalidate"}

\* __dbm__.default_handler: raise the event if it is an exception
default_handler(type) ==
    IF type \in ExceptionTypes
    THEN IF type = "ShutdownException" THEN {"shutdown"}
         ELSE IF type = "InvalidateHandlerException" THEN {"invalidate"}
         ELSE {"fault"}
    ELSE {"ok"}

\* The outcomes handler(target, event) can have.
Outcomes(hd, ev) ==
    IF hd.kind = "ready" THEN {"ok"}
    ELSE IF hd.kind = "schema" THEN {"ok", "fault"}
    ELSE IF hd.kind = "handle" THEN wr_handler(hState[hd.h] # "dead")
    ELSE default_handler(ev.type)

\* A loop without the catch-all clause: any other exception ends it.
OnOutcomeNoCatchAll(outcome) ==
    IF outcome = "invalidate" THEN "remove"
    ELSE IF outcome = "ok" THEN "continue"
    ELSE "return"

\* A loop without the ShutdownException clause: the signal is logged like
\* any other exception.
OnOutcomeShutdownLogged(outcome) ==
    IF outcome = "invalidate" THEN "remove" ELSE "continue"

\* The except clauses around handler(target, event).
OnOutcome(outcome) ==
    IF outcome = "invalidate" THEN "remove"
    ELSE IF outcome = "shutdown" THEN "return"
    ELSE "continue"

\* A removal that empties the whole list.
RemoveHandlerClear(map, type, alias, hd) ==
    IF map[type].present /\ map[type].id = alias
    THEN [map EXCEPT ![type].items = <<>>]
    ELSE map

\* handlers.remove(handler) on the list `handlers` is bound to: it changes
\* the event map only while that list is still the one the map holds.
RemoveHandler(map, type, alias, hd) ==
    IF map[type].present /\ map[type].id = alias
    THEN [map EXCEPT ![type].items = ListRemove(@, hd)]
    ELSE map

\* try: handler(target, event) except ...
DbmHandler ==
    /\ dbmPc = "handler"
    /\ LET ev == Head(dbmEvents)
           hd == dbmSnap[dbmIdx]
       IN  \E o \in Outcomes(hd, ev) :
             /\ lastOutcome' = [kind |-> hd.kind, h |-> hd.h, outcome |-> o]
             /\ dbmReady' = IF hd.kind = "ready" THEN TRUE ELSE dbmReady
             /\ readySets' = IF hd.kind = "ready" THEN readySets + 1
                             ELSE readySets
             /\ dbWriters' = IF hd.kind = "schema"
                             THEN dbWriters \cup {"dbm"} ELSE dbWriters
             /\ deadCalls' = IF hd.kind = "handle" /\ o # "invalidate"
                                /\ hState[hd.h] = "dead"
                             THEN deadCalls + 1 ELSE deadCalls
             /\ event_map' = IF OnOutcome(o) = "remove"
                             THEN RemoveHandler(event_map, ev.type,
                                                dbmAlias, hd)
                             ELSE event_map
             /\ mapWriters' = IF OnOutcome(o) = "remove"
                              THEN mapWriters \cup {"dbm"} ELSE mapWriters
             /\ dbmPc' = IF OnOutcome(o) = "return" THEN "terminated"
                         ELSE IF dbmIdx = Len(dbmSnap) THEN "gc"
                         ELSE "handler"
             /\ dbmIdx' = IF OnOutcome(o) = "return" THEN dbmIdx
                          ELSE dbmIdx + 1
    /\ UNCHANGED <<initIdx, lock, schema, db, nl, queue, rtnl_objects,
                   regWriters, dbmTarget, dbmEvents, dbmAlias, dbmSnap,
                   dispatched>>
    /\ UNCHANGED <<ctorVars, srcVars, handleVars, closeVars>>
    /\ UNCHANGED pureVars

\* A sweep that discards every entry.
SweepAll(refs) == {}

\* for wr in tuple(self._rtnl_objects): if wr() is None: remove
Sweep(refs) == {h \in refs : hState[h] # "dead"}

\* if time.time() - self.gctime > config.gc_timeout: the sweep. Reading
\* self._rtnl_objects before NDB.__init__ assigned it raises
\* AttributeError outside every try block.
DbmGc(elapsed) ==
    /\ dbmPc = "gc"
    /\ IF ~elapsed
       THEN /\ dbmPc' = IF Tail(dbmEvents) = <<>> THEN "get" ELSE "event"
            /\ dbmEvents' = Tail(dbmEvents)
            /\ UNCHANGED <<rtnl_objects, regWriters>>
       ELSE IF ~rtnl_objects.exists
       THEN /\ dbmPc' = "sweep_crashed"
            /\ UNCHANGED <<dbmEvents, rtnl_objects, regWriters>>
       ELSE /\ dbmPc' = IF Tail(dbmEvents) = <<>> THEN "get" ELSE "event"
            /\ dbmEvents' = Tail(dbmEvents)
            /\ rtnl_objects' = [rtnl_objects EXCEPT !.refs = Sweep(@)]
            /\ regWriters' = IF Sweep(rtnl_objects.refs) # rtnl_objects.refs
                             THEN regWriters \cup {"dbm"} ELSE regWriters
    /\ UNCHANGED <<initIdx, dbmReady, readySets, lock, schema, db, nl, queue,
                   event_map, mapWriters, dbWriters, dbmTarget, dbmAlias,
                   dbmSnap, dbmIdx, dispatched, deadCalls>>
    /\ lastOutcome' = NoOutcome
    /\ UNCHANGED <<ctorVars, srcVars, handleVars, closeVars>>
    /\ UNCHANGED pureVars


\* ------------------------------------------------ the source thread t()
\* The batch a closed channel delivers to its reader: the first message
\* carries error code 104.
GoneBatch(t) == <<Ev("error104", t, 0, "ctl")>>

\* A thread that does not look at the error code.
IsTargetGoneNever(msg) == FALSE

\* msg[0]['header']['error'] and msg[0]['header']['error'].code == 104
IsTargetGone(msg) == msg[1].type = "error104"

IncrBatch(t, shape, base) ==
    [i \in 1..Len(shape) |-> Ev(shape[i], t, base + i, "incr")]

\* msg = tuple(channel.get()): the channel delivers a batch of events
SrcReadIncr(t, shape) ==
    /\ srcPc[t] = "read"
    /\ nl[t] = "bound"
    /\ incrRead < MaxIncr
    /\ srcMsg' = [srcMsg EXCEPT ![t] = IncrBatch(t, shape, gen[t])]
    /\ gen' = [gen EXCEPT ![t] = @ + Len(shape)]
    /\ incrRead' = incrRead + 1
    /\ srcPc' = [srcPc EXCEPT ![t] = "got"]
    /\ UNCHANGED <<dbmPc, initIdx, dbmReady, readySets, lock, schema, db, nl,
                   srcThreads, enqueued, queue, event_map, rtnl_objects,
                   mapWriters, regWriters, dbWriters>>
    /\ UNCHANGED <<ctorVars, loopVars, handleVars, closeVars>>
    /\ UNCHANGED pureVars

\* msg = tuple(channel.get()): the channel was closed under the reader
SrcReadClosed(t) ==
    /\ srcPc[t] = "read"
    /\ nl[t] = "closed"
    /\ srcMsg' = [srcMsg EXCEPT ![t] = GoneBatch(t)]
    /\ srcPc' = [srcPc EXCEPT ![t] = "got"]
    /\ UNCHANGED <<dbmPc, initIdx, dbmReady, readySets, lock, schema, db, nl,
                   gen, incrRead, srcThreads, enqueued, queue, event_map,
                   rtnl_objects, mapWriters, regWriters, dbWriters>>
    /\ UNCHANGED <<ctorVars, loopVars, handleVars, closeVars>>
    /\ UNCHANGED pureVars

\* if <target gone>: return; event_queue.put((target, msg))
SrcForward(t) ==
    /\ srcPc[t] = "got"
    /\ IF IsTargetGone(srcMsg[t])
       THEN /\ srcPc' = [srcPc EXCEPT ![t] = "done"]
            /\ UNCHANGED <<queue, enqueued>>
       ELSE /\ srcPc' = [srcPc EXCEPT ![t] = "read"]
            /\ queue' = QueuePut(queue,
                                 [target |-> t, events |-> srcMsg[t]])
            /\ enqueued' = [enqueued EXCEPT ![t] =
                   @ \o [i \in 1..Len(srcMsg[t]) |-> srcMsg[t][i].seq]]
    /\ srcMsg' = [srcMsg EXCEPT ![t] = <<>>]
    /\ UNCHANGED <<dbmPc, initIdx, dbmReady, readySets, lock, schema, db, nl,
                   gen, incrRead, srcThreads, event_map, rtnl_objects,
                   mapWriters, regWriters, dbWriters>>
    /\ UNCHANGED <<ctorVars, loopVars, handleVars, closeVars>>
    /\ UNCHANGED pureVars

\* ------------------------------------------------------ View.__getitem__
\* ret = self.iclass(self.ndb.schema, key); wr = weakref.ref(ret);
\* self.ndb._rtnl_objects.add(wr)
GetItem(h, cls) ==
    /\ views
    /\ db = "open"
    /\ hState[h] = "none"
    /\ IF h = 1 THEN TRUE ELSE hState[h - 1] \notin {"none", "dumping"}
    /\ hState' = [hState EXCEPT ![h] = "added"]
    /\ hClass' = [hClass EXCEPT ![h] = cls]
    /\ rtnl_objects' = [rtnl_objects EXCEPT !.refs = @ \cup {h}]
    /\ regWriters' = regWriters \cup {"caller"}
    /\ UNCHANGED <<dbmPc, initIdx, dbmReady, readySets, lock, schema, db, nl,
                   queue, event_map, mapWriters, dbWriters, hPresent>>
    /\ UNCHANGED <<ctorVars, srcVars, loopVars, closeVars>>
    /\ UNCHANGED pureVars

\* A caller thread calls ndb.register_handler(event, handler) itself, for
\* an event type the schema does not handle: the call is entered; no
\* Handle is made and nothing is added to the registry.
CallRegister(h) ==
    /\ ctorPc = "returned"
    /\ hState[h] = "none"
    /\ IF h = 1 THEN TRUE ELSE hState[h - 1] \notin {"none", "dumping"}
    /\ hState' = [hState EXCEPT ![h] = "added"]
    /\ hClass' = [hClass EXCEPT ![h] = "Direct"]
    /\ UNCHANGED <<dbmPc, initIdx, dbmReady, readySets, lock, schema, db, nl,
                   queue, event_map, rtnl_objects, mapWriters, regWriters,
                   dbWriters, hPresent>>
    /\ UNCHANGED <<ctorVars, srcVars, loopVars, closeVars>>
    /\ UNCHANGED pureVars

\* register_handler, first statement: if event not in self._event_map
RegCheck(h) ==
    /\ hState[h] = "added"
    /\ hPresent' = [hPresent EXCEPT
                       ![h] = event_map[ClassEvent(hClass[h])].present]
    /\ hState' = [hState EXCEPT ![h] = "checked"]
    /\ UNCHANGED <<dbmPc, initIdx, dbmReady, readySets, lock, schema, db, nl,
                   queue, event_map, rtnl_objects, mapWriters, regWriters,
                   dbWriters, hClass>>
    /\ UNCHANGED <<ctorVars, srcVars, loopVars, closeVars>>
    /\ UNCHANGED pureVars

\* A keyed access that hands out the handler of the first handle again.
partial_interned(h) == Hd("handle", 1)

\* partial(wr_handler, wr, fname): the handler bound to the weak reference
\* of the handle this call created.
partial_wr_handler(h) == Hd("handle", h)

\* register_handler, the rest: self._event_map[event] = [] when the check
\* found no list, then self._event_map[event].append(handler); the handle
\* is returned to the caller.
RegAppend(h) ==
    /\ hState[h] = "checked"
    /\ LET ty == ClassEvent(hClass[h])
           m == IF hPresent[h] THEN event_map
                ELSE [event_map EXCEPT ![ty] =
                         [present |-> TRUE, id |-> h, items |-> <<>>]]
       IN  event_map' = [m EXCEPT ![ty].items =
                                        Append(@, partial_wr_handler(h))]
    /\ mapWriters' = mapWriters \cup {"caller"}
    /\ hState' = [hState EXCEPT ![h] = "live"]
    /\ UNCHANGED <<dbmPc, initIdx, dbmReady, readySets, lock, schema, db, nl,
                   queue, rtnl_objects, regWriters, dbWriters, hClass,
                   hPresent>>
    /\ UNCHANGED <<ctorVars, srcVars, loopVars, closeVars>>
    /\ UNCHANGED pureVars

\* The caller drops its last strong reference: wr() is None from now on.
DropHandle(h) ==
    /\ hState[h] = "live"
    /\ hState' = [hState EXCEPT ![h] = "dead"]
    /\ UNCHANGED <<dbmPc, initIdx, dbmReady, readySets, lock, schema, db, nl,
                   queue, event_map, rtnl_objects, mapWriters, regWriters,
                   dbWriters, hClass, hPresent>>
    /\ UNCHANGED <<ctorVars, srcVars, loopVars, closeVars>>
    /\ UNCHANGED pureVars

\* ------------------------------------------------------------ View.dump
\* Caller h iterates view.dump() before its keyed access. With a declared
\* dump query (self.iclass.dump and dump_header) the dump_pre statements
\* are executed through self.ndb.execute in the calling thread before the
\* rows are yielded; without one the call is a single SELECT.
DumpPre(h, hasDump) ==
    /\ views
    /\ db = "open"
    /\ hState[h] = "none"
    /\ IF h = 1 THEN TRUE ELSE hState[h - 1] \notin {"none", "dumping"}
    /\ hState' = [hState EXCEPT ![h] = IF hasDump THEN "dumping" ELSE @]
    /\ UNCHANGED <<dbmPc, initIdx, dbmReady, readySets, lock, schema, db, nl,
                   queue, event_map, rtnl_objects, mapWriters, regWriters,
                   dbWriters, hClass, hPresent>>
    /\ UNCHANGED <<ctorVars, srcVars, loopVars, closeVars>>
    /\ UNCHANGED pureVars

\* The rows are exhausted: the dump_post statements are executed, again
\* in the calling thread.
DumpPost(h) ==
    /\ hState[h] = "dumping"
    /\ hState' = [hState EXCEPT ![h] = "none"]
    /\ UNCHANGED <<dbmPc, initIdx, dbmReady, readySets, lock, schema, db, nl,
                   queue, event_map, rtnl_objects, mapWriters, regWriters,
                   dbWriters, hClass, hPresent>>
    /\ UNCHANGED <<ctorVars, srcVars, loopVars, closeVars>>
    /\ UNCHANGED pureVars

\* ------------------------------------------------------------ NDB.close
\* The shutdown sentinel: ('localhost', (ShutdownException(), ))
ShutdownSentinel ==
    [target |-> "localhost",
     events |-> <<Ev("ShutdownException", "localhost", 0, "ctl")>>]

Did(op) == [closeOps EXCEPT ![Len(closeOps)] = @ \cup {op}]

\* with self._global_lock: ... if self.schema: self._event_queue.put(...)
CloseBegin ==
    /\ ctorPc = "returned"
    /\ closePc = "idle"
    /\ Len(closeOps) < MaxClose
    /\ lock = "free"
    /\ IF schema = "set"
       THEN /\ lock' = "close"
            /\ queue' = QueuePut(queue, ShutdownSentinel)
            /\ closeOps' = Append(closeOps, {"sentinel"})
            /\ closePc' = IF srcThreads = <<>> THEN "joindbm" ELSE "chan"
       ELSE /\ lock' = "free"
            /\ queue' = queue
            /\ closeOps' = Append(closeOps, {})
            /\ closePc' = "idle"
    /\ closeIdx' = 1
    /\ UNCHANGED <<dbmPc, initIdx, dbmReady, readySets, schema, db, nl,
                   event_map, rtnl_objects, mapWriters, regWriters,
                   dbWriters>>
    /\ UNCHANGED <<ctorVars, srcVars, loopVars, handleVars>>
    /\ UNCHANGED pureVars

\* A close() that leaves the channel as it is.
ChannelKeep(state) == state

\* src.nl.close()
ChannelClose(state) == "closed"

CloseChan ==
    /\ closePc = "chan"
    /\ nl' = [nl EXCEPT ![srcThreads[closeIdx]] = ChannelClose(@)]
    /\ closeOps' = Did("chan")
    /\ closePc' = "join"
    /\ UNCHANGED <<dbmPc, initIdx, dbmReady, readySets, lock, schema, db,
                   queue, event_map, rtnl_objects, mapWriters, regWriters,
                   dbWriters, closeIdx>>
    /\ UNCHANGED <<ctorVars, srcVars, loopVars, handleVars>>
    /\ UNCHANGED pureVars

\* src.join()
CloseJoin ==
    /\ closePc = "join"
    /\ srcPc[srcThreads[closeIdx]] = "done"
    /\ closeOps' = Did("join")
    /\ closeIdx' = closeIdx + 1
    /\ closePc' = IF closeIdx = Len(srcThreads) THEN "joindbm" ELSE "chan"
    /\ UNCHANGED <<dbmPc, initIdx, dbmReady, readySets, lock, schema, db, nl,
                   queue, event_map, rtnl_objects, mapWriters, regWriters,
                   dbWriters>>
    /\ UNCHANGED <<ctorVars, srcVars, loopVars, handleVars>>
    /\ UNCHANGED pureVars

\* A close() that does not wait for the dispatch thread.
dbm_thread_nojoin == TRUE

\* Thread.join() returns once the thread is not alive any more.
dbm_thread_join == dbmPc \in DbmDeadPcs

\* self._dbm_thread.join()
CloseJoinDbm ==
    /\ closePc = "joindbm"
    /\ dbm_thread_join
    /\ closeOps' = Did("joindbm")
    /\ closePc' = "commit"
    /\ UNCHANGED <<dbmPc, initIdx, dbmReady, readySets, lock, schema, db, nl,
                   queue, event_map, rtnl_objects, mapWriters, regWriters,
                   dbWriters, closeIdx>>
    /\ UNCHANGED <<ctorVars, srcVars, loopVars, handleVars>>
    /\ UNCHANGED pureVars

\* self.schema.commit(); self.schema.close(); the lock is released. On a
\* store that is already closed the commit raises.
CloseCommit ==
    /\ closePc = "commit"
    /\ IF db = "open"
       THEN /\ db' = "closed"
            /\ closeOps' = [closeOps EXCEPT ![Len(closeOps)] =
                               @ \cup {"commit", "dbclose"}]
       ELSE /\ db' = db
            /\ closeOps' = [closeOps EXCEPT ![Len(closeOps)] =
                               @ \cup {"commit", "error"}]
    /\ dbWriters' = dbWriters \cup {"caller"}
    /\ lock' = "free"
    /\ closePc' = "idle"
    /\ UNCHANGED <<dbmPc, initIdx, dbmReady, readySets, schema, nl, queue,
                   event_map, rtnl_objects, mapWriters, regWriters,
                   closeIdx>>
    /\ UNCHANGED <<ctorVars, srcVars, loopVars, handleVars>>
    /\ UNCHANGED pureVars

\* ------------------------------------------------------------- View.csv
\* The number of columns of the records drawn for View.csv.
MaxCols == 2

\* The values a record of a dump holds: int, None, str or float (a float
\* is kept as the text str() gives for it).
IntField(n) == [kind |-> "int", int |-> n, str |-> ""]
StrField(s) == [kind |-> "str", int |-> 0, str |-> s]
FloatField(s) == [kind |-> "float", int |-> 0, str |-> s]
NoneField == [kind |-> "None", int |-> 0, str |-> ""]

CsvInts == {-1, 0, 1, 10, 65609}
CsvStrs == {"localhost", "lo", "", "a,b", "it's"}
CsvFields ==
    {IntField(n) : n \in CsvInts} \cup {StrField(x) : x \in CsvStrs}
        \cup {FloatField("1.5"), NoneField}

\* The row of the interfaces dump for the loopback device.
ScenarioRow ==
    <<StrField("localhost"), IntField(1), StrField("lo"), NoneField,
      IntField(65609)>>

CsvRecords ==
    UNION {[1..n -> CsvFields] : n \in 0..MaxCols} \cup {ScenarioRow}

\* View.dump yields a header tuple of column names before the records.
HeaderRow == <<StrField("target"), StrField("index")>>

CsvDumps == {<<HeaderRow, r>> : r \in CsvRecords}

Digit(d) == <<"0", "1", "2", "3", "4", "5", "6", "7", "8", "9">>[d + 1]

\* '%i' % field
RECURSIVE FormatI(_)
FormatI(n) ==
    IF n < 0 THEN "-" \o FormatI(0 - n)
    ELSE IF n < 10 THEN Digit(n)
    ELSE FormatI(n \div 10) \o Digit(n % 10)

\* Every field wrapped in quotes, integers and None included.
csv_field_quote_all(f) ==
    "'" \o (IF f.kind = "int" THEN FormatI(f.int)
            ELSE IF f.kind = "None" THEN "None" ELSE f.str) \o "'"

\* The if / elif / else on one field of a record.
csv_field(f) ==
    IF f.kind = "int" THEN FormatI(f.int)
    ELSE IF f.kind = "None" THEN ""
    ELSE "'" \o f.str \o "'"

\* sep.join(row)
RECURSIVE str_join(_, _)
str_join(sep, row) ==
    IF row = <<>> THEN ""
    ELSE IF Len(row) = 1 THEN row[1]
    ELSE row[1] \o sep \o str_join(sep, Tail(row))

\* One iteration of `for record in dump`: the string it yields.
csv_record(record) ==
    str_join(",", [i \in 1..Len(record) |-> csv_field(record[i])])

\* A View.csv call is given a dump.
CsvInit ==
    /\ EngineInit
    /\ csvDump \in CsvDumps
    /\ csvOut = <<>>
    /\ NftIdle

\* for record in dump: ...; yield ','.join(row)
CsvYield ==
    /\ Len(csvOut) < Len(csvDump)
    /\ csvOut' = Append(csvOut, csv_record(csvDump[Len(csvOut) + 1]))
    /\ UNCHANGED csvDump
    /\ UNCHANGED nftVars
    /\ UNCHANGED <<ctorPc, dbmPc, initIdx, dbmReady, readySets, lock, schema,
                   db, nl, queue, event_map, rtnl_objects, views, mapWriters,
                   regWriters, dbWriters>>
    /\ UNCHANGED <<srcVars, loopVars, handleVars, closeVars>>

\* --------------------------------------------------------------- NFTReg
\* (pyroute2/nftables/parser/expr.py) A netlink register name is a string,
\* kept as the sequence of its characters.
NFT_REG_VERDICT ==
    <<"N", "F", "T", "_", "R", "E", "G", "_", "V", "E", "R", "D", "I", "C",
      "T">>
NFT_REG_ == <<"N", "F", "T", "_", "R", "E", "G", "_">>
NFT_REG32_ == <<"N", "F", "T", "_", "R", "E", "G", "3", "2", "_">>

\* The register numbers NFTReg is asked to convert.
RegNums == 0..15

\* The two decimal digits of n, as nf_tables.h writes NFT_REG32_00..15.
TwoDigits(n) == <<Digit(n \div 10), Digit(n % 10)>>

\* The register names of nf_tables.h.
NetlinkNames ==
    {NFT_REG_VERDICT} \cup {NFT_REG_ \o <<Digit(k)>> : k \in 1..4}
        \cup {NFT_REG32_ \o TwoDigits(k) : k \in 0..15}

\* nlval.split('_')[-1]: what follows the last underscore
RECURSIVE LastPart(_)
LastPart(str) ==
    IF str = <<>> THEN <<>>
    ELSE IF str[Len(str)] = "_" THEN <<>>
    ELSE Append(LastPart(SubSeq(str, 1, Len(str) - 1)), str[Len(str)])

DigitVal(c) == CHOOSE d \in 0..9 : Digit(d) = c

\* int(text), text being decimal digits (leading zeros allowed)
RECURSIVE ParseInt(_)
ParseInt(text) ==
    IF Len(text) = 1 THEN DigitVal(text[1])
    ELSE 10 * ParseInt(SubSeq(text, 1, Len(text) - 1))
             + DigitVal(text[Len(text)])

\* nlval.startswith(prefix)
StartsWith(str, prefix) ==
    Len(prefix) <= Len(str) /\ SubSeq(str, 1, Len(prefix)) = prefix

\* '{0}'.format(num): the decimal digits of num, not padded
RECURSIVE FormatD(_)
FormatD(num) ==
    IF num < 0 THEN <<"-">> \o FormatD(0 - num)
    ELSE IF num < 10 THEN <<Digit(num)>>
    ELSE Append(FormatD(num \div 10), Digit(num % 10))

\* NFTReg.from_netlink(nlval).num
from_netlink(nlval) ==
    IF nlval = NFT_REG_VERDICT THEN 0
    ELSE LET num == ParseInt(LastPart(nlval))
         IN  IF StartsWith(nlval, NFT_REG32_) THEN num + 8 ELSE num

\* NFTReg.to_netlink(NFTReg(num))
to_netlink(num) ==
    IF num = 0 THEN NFT_REG_VERDICT
    ELSE IF num < 8 THEN NFT_REG_ \o FormatD(num)
    ELSE NFT_REG32_ \o FormatD(num)

\* A register number and two netlink names are given.
NftInit ==
    /\ EngineInit
    /\ csvDump = <<>>
    /\ csvOut = <<>>
    /\ nftReg \in RegNums
    /\ nftNames \in NetlinkNames \X NetlinkNames
    /\ nftOut = [nl |-> <<>>, back |-> <<>>, nums |-> <<>>]

\* nl = NFTReg.to_netlink(NFTReg(n))
NftToNetlink ==
    /\ nftOut.nl = <<>>
    /\ nftOut' = [nftOut EXCEPT !.nl = to_netlink(nftReg)]
    /\ UNCHANGED <<nftReg, nftNames>>
    /\ UNCHANGED <<ctorPc, dbmPc, initIdx, dbmReady, readySets, lock, schema,
                   db, nl, queue, event_map, rtnl_objects, views, mapWriters,
                   regWriters, dbWriters>>
    /\ UNCHANGED <<srcVars, loopVars, handleVars, closeVars, csvVars>>

\* NFTReg.from_netlink(nl).num, on the name to_netlink returned
NftFromNetlink ==
    /\ nftOut.nl # <<>>
    /\ nftOut.back = <<>>
    /\ nftOut' = [nftOut EXCEPT !.back = <<from_netlink(nftOut.nl)>>]
    /\ UNCHANGED <<nftReg, nftNames>>
    /\ UNCHANGED <<ctorPc, dbmPc, initIdx, dbmReady, readySets, lock, schema,
                   db, nl, queue, event_map, rtnl_objects, views, mapWriters,
                   regWriters, dbWriters>>
    /\ UNCHANGED <<srcVars, loopVars, handleVars, closeVars, csvVars>>

\* NFTReg.from_netlink(s).num for each of the two given names
NftParseNames ==
    /\ nftOut.nums = <<>>
    /\ nftOut' = [nftOut EXCEPT !.nums = <<from_netlink(nftNames[1]),
                                           from_netlink(nftNames[2])>>]
    /\ UNCHANGED <<nftReg, nftNames>>
    /\ UNCHANGED <<ctorPc, dbmPc, initIdx, dbmReady, readySets, lock, schema,
                   db, nl, queue, event_map, rtnl_objects, views, mapWriters,
                   regWriters, dbWriters>>
    /\ UNCHANGED <<srcVars, loopVars, handleVars, closeVars, csvVars>>

\* ------------------------------------------------------------------ Next
Next ==
    \/ CtorResume
    \/ DbmInitMap
    \/ InitdbLock
    \/ \E ok \in BOOLEAN : InitdbBind(ok)
    \/ \E ok \in BOOLEAN : InitdbConnect(ok)
    \/ InitdbSeed
    \/ InitdbStart
    \/ InitdbSentinel
    \/ InitdbUnlock
    \/ DbmSchema
    \/ DbmGet
    \/ DbmEvent
    \/ DbmHandler
    \/ \E elapsed \in BOOLEAN : DbmGc(elapsed)
    \/ \E t \in Targets, shape \in IncrShapes : SrcReadIncr(t, shape)
    \/ \E t \in Targets : SrcReadClosed(t)
    \/ \E t \in Targets : SrcForward(t)
    \/ \E h \in Handles, cls \in Classes : GetItem(h, cls)
    \/ \E h \in Handles : RegCheck(h)
    \/ \E h \in Handles : RegAppend(h)
    \/ \E h \in Handles : DropHandle(h)
    \/ \E h \in Handles, hasDump \in BOOLEAN : DumpPre(h, hasDump)
    \/ \E h \in Handles : DumpPost(h)
    \/ CloseBegin
    \/ CloseChan
    \/ CloseJoin
    \/ CloseJoinDbm
    \/ CloseCommit

Spec == Init /\ [][Next]_vars

\* The scheduling the threads get: a runnable thread eventually runs. The
\* caller threads, and the channels' delivery of new events, get none. A
\* closed channel delivers the target-gone batch to its blocked reader.
DbmSteps ==
    \/ DbmGet
    \/ DbmEvent
    \/ DbmHandler
    \/ \E elapsed \in BOOLEAN : DbmGc(elapsed)

CloseSteps == CloseChan \/ CloseJoin \/ CloseJoinDbm \/ CloseCommit

FairSpec ==
    /\ Spec
    /\ WF_vars(DbmSteps)
    /\ WF_vars(CloseSteps)
    /\ \A t \in Targets : WF_vars(SrcReadClosed(t))
    /\ \A t \in Targets : WF_vars(SrcForward(t))

\* The engine with callers that also register handlers of their own
\* through NDB.register_handler.
RegNext == Next \/ \E h \in Handles : CallRegister(h)

RegSpec == Init /\ [][RegNext]_vars

\* The NFTReg conversions, on their own.
NftNext == NftToNetlink \/ NftFromNetlink \/ NftParseNames

NftSpec == NftInit /\ [][NftNext]_vars

\* View.csv applied to a dump, on its own.
CsvSpec == CsvInit /\ [][CsvYield]_vars

\* ================================================================ claims
NSeeds == Len(SeedTypes)

\* The sequence numbers of the incremental events in a dispatch log.
IncrOf(log) == SelectSeq(log, LAMBDA n : n > NSeeds)

\* close() has been called and has returned (or raised).
CloseReturned == Len(closeOps) >= 1 /\ closePc = "idle"

HandlerOf(h) == Hd("handle", h)

InMap(h) ==
    \E i \in 1..Len(event_map[ClassEvent(hClass[h])].items) :
        event_map[ClassEvent(hClass[h])].items[i] = HandlerOf(h)

\* C1 -- Order preservation: for every target the events handed to the
\* handlers are, in order, the events its channel generated (the seed
\* dumps, then what its source thread read): the log of dispatched
\* sequence numbers of a target is always 1, 2, 3, ..., so no event is
\* dispatched before an earlier-read one of the same target.
C1_OrderPreserved ==
    \A t \in Targets :
        \A i \in 1..Len(dispatched[t]) : dispatched[t][i] = i

\* Both incremental batches were read by one source thread and the second
\* one has reached the handlers.
C1_Witness ==
    \E t \in Targets :
        /\ Len(IncrOf(dispatched[t])) >= 3
        /\ Len(enqueued[t]) >= 4

\* The seed events of target t that are on the queue, in the batch being
\* dispatched, or dispatched already.
SeedsQueued(t) ==
    {n \in 1..NSeeds :
        \/ \E i \in 1..Len(queue) : \E j \in 1..Len(queue[i].events) :
              queue[i].events[j].tgt = t /\ queue[i].events[j].seq = n
              /\ queue[i].events[j].kind = "seed"
        \/ \E i \in 1..Len(dispatched[t]) : dispatched[t][i] = n
        \/ \E j \in 1..Len(dbmEvents) :
              dbmEvents[j].tgt = t /\ dbmEvents[j].seq = n
              /\ dbmEvents[j].kind = "seed"}

SeedsDispatched(t) ==
    {n \in 1..NSeeds : \E i \in 1..Len(dispatched[t]) : dispatched[t][i] = n}

\* C2 -- Bulk-before-incremental: once any source thread has been started
\* every seed batch of every target has been put on the queue, no queued
\* seed batch stands behind an incremental batch, and an incremental
\* event of any target reaches the handlers only after every seed event
\* of every target has.
C2_BulkBeforeIncremental ==
    /\ (\E t \in Targets : srcPc[t] # "none")
          => \A u \in Targets : SeedsQueued(u) = 1..NSeeds
    /\ \A i \in 1..Len(queue) : \A j \in 1..Len(queue) :
          (i < j /\ queue[j].events[1].kind = "seed")
              => queue[i].events[1].kind = "seed"
    /\ (\E t \in Targets : IncrOf(dispatched[t]) # <<>>)
          => \A u \in Targets : SeedsDispatched(u) = 1..NSeeds

\* An incremental batch was read while initialisation was still going on
\* and has been dispatched, before the readiness sentinel.
C2_Witness ==
    /\ ~dbmReady
    /\ \E t \in Targets : IncrOf(dispatched[t]) # <<>>

\* C3 (as stated) -- Handler self-removal: once a handle is unreachable
\* and a sweep has dropped it from the registry, its handler is absent
\* from the event map as well.
C3_AbsentAfterSweep ==
    \A h \in Handles :
        (hState[h] = "dead" /\ h \notin rtnl_objects.refs) => ~InMap(h)

\* C3 (amended) -- the sweep removes a reclaimed handle from the registry
\* only and leaves the event map unchanged; the handler leaves the event
\* map in the handler pass of the next event of its type, where the weak
\* wrapper is invoked, raises the invalidation signal and is removed, and
\* in no other step; the handle's method is never invoked after the drop.
C3_InvalidatedState ==
    /\ deadCalls = 0
    /\ \A h \in Handles :
          (lastOutcome.kind = "handle" /\ lastOutcome.h = h
           /\ lastOutcome.outcome = "invalidate") => ~InMap(h)

C3_SweepStep ==
    (dbmPc = "gc" /\ dbmPc' # "gc")
        => /\ event_map' = event_map
           /\ \/ rtnl_objects' = rtnl_objects
              \/ rtnl_objects'.refs =
                     {h \in rtnl_objects.refs : hState[h] # "dead"}

C3_RemovalStep ==
    \A h \in Handles :
        (hState[h] \in {"live", "dead"} /\ InMap(h) /\ ~InMap(h)')
            => /\ dbmPc = "handler"
               /\ dbmSnap[dbmIdx] = HandlerOf(h)
               /\ Head(dbmEvents).type = ClassEvent(hClass[h])
               /\ hState[h] = "dead"

C3_LazyRemoval ==
    /\ []C3_InvalidatedState
    /\ [][C3_SweepStep /\ C3_RemovalStep]_vars

\* A reclaimed handle is gone from the registry (swept) and from the event
\* map (invalidated by a matching event).
C3_Witness ==
    \E h \in Handles :
        /\ hState[h] = "dead"
        /\ h \notin rtnl_objects.refs
        /\ ~InMap(h)
        /\ lastOutcome.kind = "handle" /\ lastOutcome.h = h
        /\ lastOutcome.outcome = "invalidate"

\* A step of the dispatch loop in which the invoked handler raised an
\* exception that is neither control signal.
FaultStep ==
    /\ dbmPc = "handler"
    /\ dbmPc' # dbmPc \/ dbmIdx' # dbmIdx
    /\ lastOutcome'.outcome = "fault"

\* C4 -- Fault isolation: a handler raising a non-control exception leaves
\* the event map as it is (the handler stays registered), the loop goes
\* on with the next handler of the pass, or with the sweep check when it
\* was the last, and the rest of the batch and the queue are kept.
C4_FaultStep ==
    FaultStep
        => /\ event_map' = event_map
           /\ dbmSnap' = dbmSnap
           /\ dbmIdx' = dbmIdx + 1
           /\ dbmPc' = IF dbmIdx < Len(dbmSnap) THEN "handler" ELSE "gc"
           /\ dbmEvents' = dbmEvents
           /\ queue' = queue

C4_FaultIsolation == [][C4_FaultStep]_vars

\* The schema handler of a message type has just failed and the handler
\* of a live handle, registered after it, is the next to be invoked.
C4_Witness ==
    /\ dbmPc = "handler"
    /\ lastOutcome.kind = "schema" /\ lastOutcome.outcome = "fault"
    /\ dbmSnap[dbmIdx].kind = "handle"
    /\ hState[dbmSnap[dbmIdx].h] = "live"

\* C5 (as stated) -- Shutdown idempotence: a close() called after a
\* close() has returned performs no operation at all.
C5_SecondCloseNoOp ==
    \A i \in 1..Len(closeOps) : i >= 2 => closeOps[i] = {}

\* C6 (as stated) -- only the dispatch loop thread mutates the event map
\* and the handle registry.
C6_LoopOnlyMutates ==
    /\ mapWriters \subseteq {"dbm"}
    /\ regWriters \subseteq {"dbm"}

\* C7 (as stated) -- Single writer: every mutating store statement is
\* executed by the dispatch loop thread; no caller is ever executing the
\* dump_pre / dump_post statements or a commit.
C7_SingleWriter ==
    /\ dbWriters \subseteq {"dbm"}
    /\ \A h \in Handles : hState[h] # "dumping"

\* C8 -- Readiness barrier: the flag is false until it is set, it is set
\* at most once, the constructor returns and the views exist only after
\* it is set; the step that sets it is the dispatch loop's invocation of
\* the handler of the readiness sentinel, and in the state it yields the
\* store is open, every channel is bound, the schema exists and every
\* seed event of every target has been dispatched.
C8_BarrierState ==
    /\ readySets <= 1
    /\ dbmReady <=> readySets = 1
    /\ ctorPc = "returned" => dbmReady
    /\ views => dbmReady
    /\ rtnl_objects.exists => dbmReady

C8_BarrierStep ==
    (~dbmReady /\ dbmReady')
        => /\ dbmPc = "handler"
           /\ Head(dbmEvents).type = "Event"
           /\ dbmSnap[dbmIdx].kind = "ready"
           /\ db' = "open"
           /\ schema' = "set"
           /\ \A t \in Targets : nl'[t] = "bound"
           /\ \A t \in Targets : SeedsDispatched(t)' = 1..NSeeds

C8_ReadinessBarrier == []C8_BarrierState /\ [][C8_BarrierStep]_vars

\* The constructor has returned on a ready engine.
C8_Witness == dbmReady /\ ctorPc = "returned" /\ views /\ readySets = 1

\* C9 -- Shutdown terminates: a close() call in progress leads to a state
\* where it has returned, every source thread has ended, the dispatch
\* loop thread has ended and the store is closed.
C9_ShutdownTerminates ==
    (closePc # "idle")
        ~> /\ closePc = "idle"
           /\ \A t \in Targets : srcPc[t] = "done"
           /\ dbmPc \in DbmDeadPcs
           /\ db = "closed"

\* The first close() has returned after committing and closing the store,
\* the loop having ended on the shutdown sentinel.
C9_Witness ==
    /\ CloseReturned
    /\ closeOps[1] = {"sentinel", "chan", "join", "joindbm", "commit",
                      "dbclose"}
    /\ dbmPc = "terminated"
    /\ \A t \in Targets : srcPc[t] = "done"
    /\ db = "closed"

\* C10 (as stated) -- no in-flight state is lost: when close() has
\* returned and the loop ended on the shutdown sentinel, every event a
\* source thread put on the queue has been dispatched.
C10_NoInFlightLoss ==
    (CloseReturned /\ dbmPc = "terminated")
        => \A t \in Targets : IncrOf(dispatched[t]) = enqueued[t]

\* A step of the dispatch loop that invokes default_handler on an event
\* whose value is an exception.
DefaultRaiseStep ==
    /\ dbmPc = "handler"
    /\ dbmPc' # dbmPc \/ dbmIdx' # dbmIdx
    /\ dbmSnap[dbmIdx].kind = "default"
    /\ Head(dbmEvents).type \in ExceptionTypes

\* C11 (as stated) -- an exception-valued event of a type without a
\* registered handler is raised by the default handler and ends the
\* dispatch loop thread, whatever the type of the exception.
C11_DefaultRaiseFatal ==
    [][DefaultRaiseStep => dbmPc' \in DbmDeadPcs]_vars

\* The number of occurrences of x in the sequence s.
Count(s, x) == Cardinality({i \in 1..Len(s) : s[i] = x})

\* C12 -- keyed access never interns: every handle a caller holds has its
\* own entry in the registry; once the access has returned, its own
\* handler stands exactly once in the list of its class's event type and
\* in no other list, however many handles exist; a handler pass that
\* starts for an event of that type takes every live handle's handler
\* exactly once, and the pass invokes its handlers one after the other,
\* each once.
C12_State ==
    \A h \in Handles :
        /\ hState[h] \in {"added", "checked", "live"}
              => h \in rtnl_objects.refs
        /\ \A ty \in Types :
              Count(event_map[ty].items, HandlerOf(h)) =
                  IF hState[h] = "live" /\ ty = ClassEvent(hClass[h])
                  THEN 1
                  ELSE IF hState[h] = "dead" /\ ty = ClassEvent(hClass[h])
                  THEN Count(event_map[ty].items, HandlerOf(h))
                  ELSE 0
        /\ Count(event_map[ClassEvent(hClass[h])].items, HandlerOf(h)) <= 1
        /\ Count(dbmSnap, HandlerOf(h)) <= 1

C12_PassStep ==
    /\ (dbmPc = "event" /\ dbmPc' # "event")
          => \A h \in Handles :
                (hState[h] = "live"
                 /\ Head(dbmEvents).type = ClassEvent(hClass[h]))
                    => Count(dbmSnap', HandlerOf(h)) = 1
    /\ (dbmPc = "handler" /\ (dbmPc' # dbmPc \/ dbmIdx' # dbmIdx)
        /\ dbmPc' # "terminated")
          => /\ dbmIdx' = dbmIdx + 1
             /\ dbmSnap' = dbmSnap
             /\ dbmPc' = "gc" <=> dbmIdx = Len(dbmSnap)

C12_NoInterning == []C12_State /\ [][C12_PassStep]_vars

\* Two live handles: the handler of the first has been invoked for a
\* matching event and the handler of the second is the next to be invoked.
C12_Witness ==
    /\ \A h \in Handles : hState[h] = "live"
    /\ dbmPc = "handler"
    /\ dbmSnap = <<Hd("schema", 0), HandlerOf(1), HandlerOf(2)>>
    /\ dbmIdx = 3
    /\ lastOutcome.kind = "handle" /\ lastOutcome.h = 1
    /\ lastOutcome.outcome = "ok"

\* The text prescribed for one field.
C13_Text(f) ==
    IF f.kind = "None" THEN ""
    ELSE IF f.kind # "int" THEN "'" \o f.str \o "'"
    ELSE CASE f.int = -1 -> "-1"
           [] f.int = 0 -> "0"
           [] f.int = 1 -> "1"
           [] f.int = 10 -> "10"
           [] f.int = 65609 -> "65609"

RECURSIVE C13_Line(_)
C13_Line(r) ==
    IF r = <<>> THEN ""
    ELSE IF Len(r) = 1 THEN C13_Text(r[1])
    ELSE C13_Line(SubSeq(r, 1, Len(r) - 1)) \o "," \o C13_Text(r[Len(r)])

\* C13 -- CSV projection: the i-th string csv() yields is the i-th record
\* of the dump with its fields joined by commas in column order, an
\* integer as its decimal digits without quotes, None as the empty
\* string and every other field between single quotes; the loopback row
\* gives exactly 'localhost',1,'lo',,65609.
C13_CsvProjection ==
    \A i \in 1..Len(csvOut) :
        /\ csvOut[i] = C13_Line(csvDump[i])
        /\ csvDump[i] = ScenarioRow
              => csvOut[i] = "'localhost',1,'lo',,65609"

\* The loopback row has been rendered, after the header.
C13_Witness ==
    /\ Len(csvOut) = 2
    /\ csvDump[2] = ScenarioRow
    /\ csvOut[1] = "'target','index'"
    /\ csvOut[2] = "'localhost',1,'lo',,65609"

\* A step of the dispatch loop in which the invoked handler raised the
\* invalidation signal.
InvalidateStep ==
    /\ dbmPc = "handler"
    /\ dbmPc' # dbmPc \/ dbmIdx' # dbmIdx
    /\ lastOutcome'.outcome = "invalidate"

\* The sequence s without its k-th element.
Without(s, k) == SubSeq(s, 1, k - 1) \o SubSeq(s, k + 1, Len(s))

\* C14 -- a handler of the event map that raises the invalidation signal
\* is the one entry removed from the list of the event's type: the list
\* becomes the old list without that entry, the others keeping their
\* order; every other list stays as it is; the pass keeps its snapshot
\* and goes on with the next handler of it (or with the sweep check after
\* the last one); the rest of the batch and the queue are kept.
C14_InvalidateStep ==
    InvalidateStep
        => LET ty == Head(dbmEvents).type
               hd == dbmSnap[dbmIdx]
           IN  /\ \A u \in Types \ {ty} : event_map'[u] = event_map[u]
               /\ hd.kind = "handle"
                     => \E k \in 1..Len(event_map[ty].items) :
                           /\ event_map[ty].items[k] = hd
                           /\ event_map'[ty].items =
                                  Without(event_map[ty].items, k)
                           /\ Count(event_map'[ty].items, hd) = 0
               /\ hd.kind # "handle" => event_map'[ty] = event_map[ty]
               /\ event_map'[ty].present = event_map[ty].present
               /\ dbmSnap' = dbmSnap
               /\ dbmIdx' = dbmIdx + 1
               /\ dbmPc' = IF dbmIdx < Len(dbmSnap) THEN "handler" ELSE "gc"
               /\ dbmEvents' = dbmEvents
               /\ queue' = queue

C14_RemovesOnlyThatHandler == [][C14_InvalidateStep]_vars

\* The handler of a reclaimed handle has just been removed while the
\* handlers registered before and after it are still in the list, and the
\* one after it is the next to be invoked.
C14_Witness ==
    /\ dbmPc = "handler"
    /\ lastOutcome.kind = "handle" /\ lastOutcome.h = 1
    /\ lastOutcome.outcome = "invalidate"
    /\ dbmSnap[dbmIdx] = HandlerOf(2)
    /\ event_map[Head(dbmEvents).type].items =
           <<Hd("schema", 0), HandlerOf(2)>>

\* A step of the dispatch loop in which the invoked handler raised the
\* shutdown signal.
ShutdownStep ==
    /\ dbmPc = "handler"
    /\ dbmPc' # dbmPc \/ dbmIdx' # dbmIdx
    /\ lastOutcome'.outcome = "shutdown"

\* q is an initial part of r.
IsPrefix(q, r) == Len(q) <= Len(r) /\ SubSeq(r, 1, Len(q)) = q

\* C15 -- terminated is absorbing: the step in which a handler raises the
\* shutdown signal ends the loop at once, leaving the rest of the pass,
\* of the batch and of the queue where they are; from then on the loop
\* thread stays terminated, invokes no handler (the dispatch log, the
\* pass position and the latest outcome never change), takes nothing off
\* the queue, removes nothing from the registry or the event map and
\* never sets the readiness flag.
C15_ShutdownStep ==
    ShutdownStep
        => /\ dbmPc' = "terminated"
           /\ dbmIdx' = dbmIdx
           /\ dbmSnap' = dbmSnap
           /\ dbmEvents' = dbmEvents
           /\ queue' = queue
           /\ event_map' = event_map
           /\ rtnl_objects' = rtnl_objects

C15_TerminatedStep ==
    dbmPc = "terminated"
        => /\ dbmPc' = "terminated"
           /\ UNCHANGED <<dbmTarget, dbmEvents, dbmAlias, dbmSnap, dbmIdx,
                          lastOutcome, dispatched, deadCalls, dbmReady,
                          readySets>>
           /\ IsPrefix(queue, queue')
           /\ rtnl_objects.refs \subseteq rtnl_objects'.refs
           /\ \A ty \in Types :
                 IsPrefix(event_map[ty].items, event_map'[ty].items)

C15_TerminatedAbsorbing ==
    [][C15_ShutdownStep /\ C15_TerminatedStep]_vars

\* The loop has ended on the shutdown sentinel while a batch that was put
\* on the queue behind the sentinel is still there, a handle is
\* registered and another close() has put a second sentinel.
C15_Witness ==
    /\ dbmPc = "terminated"
    /\ lastOutcome.outcome = "shutdown"
    /\ \E i \in 1..Len(queue) : queue[i].events[1].kind = "incr"
    /\ \E i \in 1..Len(queue) : queue[i] = ShutdownSentinel
    /\ \E h \in Handles : hState[h] = "live"

\* The step a source thread takes after channel.get() returned a batch.
SrcStep(t) == srcPc[t] = "got" /\ srcPc'[t] # "got"

\* C16 -- Ingestion Thread step: a batch whose first message carries
\* error code 104 ends the thread and is not put on the queue, so no such
\* batch is ever on the queue or in dispatch; any other batch is appended
\* to the queue once, whole and in order, tagged with the target the
\* thread was started for, and the thread reads again.
C16_QueueState ==
    /\ \A i \in 1..Len(queue) : queue[i].events[1].type # "error104"
    /\ dbmEvents # <<>> => dbmEvents[1].type # "error104"
    /\ \A i \in 1..Len(queue) :
          queue[i].events[1].kind = "incr"
              => \A j \in 1..Len(queue[i].events) :
                    queue[i].events[j].tgt = queue[i].target
    /\ \A t \in Targets : srcPc[t] = "got" <=> srcMsg[t] # <<>>

C16_SrcStep ==
    \A t \in Targets :
        SrcStep(t)
            => IF srcMsg[t][1].type = "error104"
               THEN /\ srcPc'[t] = "done"
                    /\ queue' = queue
               ELSE /\ srcPc'[t] = "read"
                    /\ queue' = Append(queue, [target |-> t,
                                               events |-> srcMsg[t]])

C16_IngestionStep == []C16_QueueState /\ [][C16_SrcStep]_vars

\* One source thread has ended on the target-gone batch of its closed
\* channel after it had put a batch on the queue; the other one has put
\* a batch on the queue and is reading again.
C16_Witness ==
    \E t \in Targets : \E u \in Targets \ {t} :
        /\ srcPc[t] = "done" /\ enqueued[t] # <<>>
        /\ srcPc[u] = "read" /\ enqueued[u] # <<>>
        /\ \E i \in 1..Len(queue) :
              queue[i].target = u /\ queue[i].events[1].kind = "incr"

\* A caller (or the running keyed access) holds a strong reference to
\* the handle.
Referenced(h) == hState[h] \in {"added", "checked", "live"}

\* C17 (as stated) -- Handle Registry invariant: in every reachable state
\* a handle has an entry in the registry exactly when a strong reference
\* to it survives; no entry of an unreachable handle remains.
C17_ExactlyWhileReferenced ==
    \A h \in Handles : h \in rtnl_objects.refs <=> Referenced(h)

\* C17 (amended) -- every handle with a surviving strong reference has
\* its entry in the registry, and every entry belongs to a handle some
\* keyed access created; an entry leaves the registry only in a sweep of
\* the dispatch loop and only when its handle is unreachable, and the
\* sweep that removes one leaves no entry of an unreachable handle
\* behind; between the drop and that sweep the dead entry stays.
C17_RegistryState ==
    \A h \in Handles :
        /\ Referenced(h) => h \in rtnl_objects.refs
        /\ h \in rtnl_objects.refs => hState[h] \notin {"none", "dumping"}

C17_RemovalStep ==
    \A h \in Handles :
        (h \in rtnl_objects.refs /\ h \notin rtnl_objects'.refs)
            => /\ dbmPc = "gc" /\ dbmPc' # "gc"
               /\ ~Referenced(h)
               /\ \A g \in rtnl_objects'.refs : Referenced(g)
               /\ \A g \in rtnl_objects.refs :
                     Referenced(g) => g \in rtnl_objects'.refs

C17_RegistryWeak == []C17_RegistryState /\ [][C17_RemovalStep]_vars

\* A sweep has removed the entry of a dropped handle while the entry of
\* a handle that is still referenced stays in the registry.
C17_Witness ==
    \E h \in Handles : \E g \in Handles :
        /\ hState[h] = "dead" /\ h \notin rtnl_objects.refs
        /\ hState[g] = "live" /\ g \in rtnl_objects.refs

\* The step in which bind() or connect() raised: the thread leaves the
\* statement without the channels bound, or without a store.
InitFailStep ==
    \/ dbmPc = "bind" /\ dbmPc' # "bind"
          /\ \E t \in Targets : nl'[t] = "unbound"
    \/ dbmPc = "connect" /\ dbmPc' # "connect" /\ db' = "none"

\* C18 -- initialisation failure: a failing bind() or connect() ends the
\* dispatch thread before the loop is entered; in the state it leaves
\* nothing has been put on the queue or dispatched, no schema exists,
\* the readiness flag is false, the constructor is blocked in wait() and
\* no view exists; and no step is ever taken from that state, so the
\* flag stays false and the constructor never returns.
C18_FailedState ==
    dbmPc = "init_failed"
        => /\ ~dbmReady /\ readySets = 0
           /\ ctorPc = "wait" /\ ~views /\ ~rtnl_objects.exists
           /\ schema = "None"
           /\ queue = <<>>
           /\ \A t \in Targets : dispatched[t] = <<>> /\ srcPc[t] = "none"
           /\ lock = "free"

C18_FailStep ==
    /\ InitFailStep => dbmPc' = "init_failed"
    /\ dbmPc = "init_failed" => UNCHANGED vars

C18_InitFailureHangs == []C18_FailedState /\ [][C18_FailStep]_vars

\* The channels were bound and connecting to the store failed.
C18_Witness ==
    /\ dbmPc = "init_failed"
    /\ \A t \in Targets : nl[t] = "bound"
    /\ db = "none"
    /\ ctorPc = "wait"

\* The close() call in progress has done op.
Done(op) == closeOps # <<>> /\ op \in closeOps[Len(closeOps)]

\* C19 -- shutdown ordering: a close() call closes a channel only after
\* it has put the shutdown sentinel on the queue, joins the dispatch
\* thread only after it has closed and joined every source thread, and
\* commits and closes the store only after that join; so whenever the
\* store is closed every source thread and the dispatch thread have
\* ended, and no handler can be invoked on a closed store.
C19_OrderState ==
    /\ db = "closed"
          => /\ dbmPc \in DbmDeadPcs
             /\ \A t \in Targets : srcPc[t] = "done"
    /\ closePc \in {"chan", "join", "joindbm", "commit"} => Done("sentinel")
    /\ closePc \in {"joindbm", "commit"}
          => /\ Done("chan") /\ Done("join")
             /\ \A t \in Targets : nl[t] = "closed" /\ srcPc[t] = "done"
    /\ closePc = "commit" => Done("joindbm") /\ dbmPc \in DbmDeadPcs

C19_OrderStep ==
    /\ (\E t \in Targets : nl[t] # "closed" /\ nl'[t] = "closed")
          => Done("sentinel") /\ ShutdownSentinel \in
                 {queue[i] : i \in 1..Len(queue)} \cup
                 {[target |-> dbmTarget, events |-> dbmEvents]}
    /\ (db = "open" /\ db' = "closed")
          => /\ closePc = "commit"
             /\ dbmPc \in DbmDeadPcs
             /\ \A t \in Targets : srcPc[t] = "done"

C19_ShutdownOrdering == []C19_OrderState /\ [][C19_OrderStep]_vars

\* close() has closed the store after the loop ended on the shutdown
\* sentinel and both source threads ended.
C19_Witness ==
    /\ db = "closed"
    /\ dbmPc = "terminated"
    /\ lastOutcome.outcome = "shutdown"
    /\ \A t \in Targets : srcPc[t] = "done" /\ nl[t] = "closed"
    /\ closeOps = <<{"sentinel", "chan", "join", "joindbm", "commit",
                     "dbclose"}>>

\* C20 (as stated) -- the dispatch loop never runs the sweep before the
\* registry exists: no sweep reads a missing self._rtnl_objects and ends
\* the loop thread.
C20_NoSweepBeforeRegistry == dbmPc # "sweep_crashed"

\* C21 (as stated) -- no registered handler is lost: every handler whose
\* register_handler call has returned and whose owner has not dropped it
\* (so that no invalidation signal has removed it) is in the event map
\* list of its event type.
C21_NoHandlerLost ==
    \A h \in Handles : hState[h] = "live" => InMap(h)

\* C22 (as stated) -- nftables register round trip: the name to_netlink
\* gives for a register number n in 0..15 is converted back to n by
\* from_netlink, and from_netlink gives two different register names of
\* nf_tables.h two different numbers.
C22_RoundTrip ==
    /\ nftOut.back # <<>> => nftOut.back[1] = nftReg
    /\ (nftOut.nums # <<>> /\ nftNames[1] # nftNames[2])
          => nftOut.nums[1] # nftOut.nums[2]

====
